---- MODULE Spec2Model ----
(***************************************************************************)
(* Model of the task-handler program (src/src/main.rs): the PriorityQueue  *)
(* behind a Mutex, the sender thread feeding an mpsc channel, the receiver *)
(* thread executing received tasks and pushing two derived tasks, and the  *)
(* task-handler thread draining the queue and spawning one thread per      *)
(* popped task.                                                            *)
(*                                                                         *)
(* Spec is the program as main() runs it; LiveSpec is Spec under a fair    *)
(* scheduler; FSpec is Spec with handlers that may panic in the threads    *)
(* handle() spawned.  QSpec drives the TaskQueue API (push, pop, peek,     *)
(* len, is_empty) of one PriorityQueue with arbitrary calls, the way a     *)
(* unit test would.                                                        *)
(***************************************************************************)
EXTENDS Integers, Sequences, FiniteSets, TLC

VARIABLES
    tasks,          \* PriorityQueue.tasks : Vec<Task>
    lock,           \* owner of the Mutex around the queue, or "free"
    channel,        \* messages in flight in the mpsc channel
    senderDropped,  \* the Sender end has been dropped (channel closed)
    mainpc,         \* position of main()
    spc,            \* position of the sender thread
    i,              \* the sender thread's loop counter
    hpc,            \* position of the task-handler thread
    rpc,            \* position of the receiver thread
    rlocal,         \* the receiver thread's locals (task, task_result, derived tasks)
    units,          \* threads spawned by handle(): task id -> handler, priority, state
    nextId,         \* number of identifiers generated so far (Uuid::new_v4)
    pushedLog,      \* history: every task handed to push, in call order
    poppedLog,      \* history: every task returned by pop, in call order
    sent,           \* history: every task sent on the channel, in send order
    received,       \* history: every task recv returned, in order
    executed,       \* history: task id -> who ran its handler, once per run
    lenAtLock,      \* history: len() of the queue when the receiver took the lock
    calls,          \* QSpec: the last two TaskQueue calls, newest last
    poisoned,       \* the Mutex is poisoned (a thread panicked holding its guard)
    drainStart      \* history: the queue when the task-handler thread took the lock

vars == << tasks, lock, channel, senderDropped, mainpc, spc, i, hpc, rpc, rlocal,
           units, nextId, pushedLog, poppedLog, sent, received, executed,
           lenAtLock, calls, poisoned, drainStart >>

(***************************************************************************)
(* Bounds of the model.                                                    *)
(***************************************************************************)
\* Number of tasks the sender thread emits (the program's loop runs 0..10).
FeederCount == 2
\* QSpec: number of push calls made on the queue under test.
MaxPush == 3
\* FSpec: number of spawned threads whose handler may fail.
MaxFail == 1

(***************************************************************************)
(* Data: PriorityLevel, Task, HardProblem, Option.                         *)
(***************************************************************************)
PriorityLevel == {"High", "Medium", "Low"}

\* #[derive(Ord)] orders the variants by declaration: High < Medium < Low.
Discriminant(p) == CASE p = "High" -> 0 [] p = "Medium" -> 1 [] p = "Low" -> 2

\* Ordering::{Less, Equal, Greater} of a.cmp(b) on PriorityLevel, as -1, 0, 1.
cmp(a, b) ==
    IF Discriminant(a) < Discriminant(b) THEN -1
    ELSE IF Discriminant(a) = Discriminant(b) THEN 0 ELSE 1

\* Task { id, handler: Box<HardProblem { num1, num2 }>, priority_level }
Task(id, num1, num2, p) ==
    [id |-> id, num1 |-> num1, num2 |-> num2, priority_level |-> p]

\* HardProblem::solve / TaskHandler::execute: result = num1; result += num2.
execute(t) == t.num1 + t.num2

None == << >>
Some(x) == << x >>

(***************************************************************************)
(* PriorityQueue.                                                          *)
(***************************************************************************)
\* The comparator handed to sort_by in push: |a, b| b.priority_level.cmp(&a.priority_level)
sort_cmp(a, b) == cmp(b.priority_level, a.priority_level)

\* An insertion step that is not stable: x goes in front of the elements it
\* compares Equal to.
RECURSIVE insert_before_equals(_, _)
insert_before_equals(s, x) ==
    CHOOSE r \in { IF v = << >> THEN << x >>
                   ELSE IF sort_cmp(Head(v), x) < 0
                        THEN << Head(v) >> \o insert_before_equals(Tail(v), x)
                        ELSE << x >> \o v : v \in { s } } : TRUE

\* One step of a stable sort: x, which came after every element of the sorted
\* prefix s, goes behind every element that does not compare Greater than it.
\* (v \in { s } binds the value of s, so that it is computed once.)
RECURSIVE insert_stable(_, _)
insert_stable(s, x) ==
    CHOOSE r \in { IF v = << >> THEN << x >>
                   ELSE IF sort_cmp(Head(v), x) <= 0
                        THEN << Head(v) >> \o insert_stable(Tail(v), x)
                        ELSE << x >> \o v : v \in { s } } : TRUE

\* slice::sort_by: a stable sort under sort_cmp.
RECURSIVE sort_by(_)
sort_by(s) ==
    CHOOSE r \in { IF v = << >> THEN << >>
                   ELSE insert_stable(sort_by(SubSeq(v, 1, Len(v) - 1)), v[Len(v)])
                   : v \in { s } } : TRUE

\* A push that replaces the resident task of the same priority instead of
\* keeping both.
push_replacing(q, t) ==
    sort_by(Append(SelectSeq(q, LAMBDA e : e.priority_level # t.priority_level), t))

\* PriorityQueue::push: self.tasks.push(task); self.tasks.sort_by(...)
push(q, t) == sort_by(Append(q, t))

\* A pop that takes the front of the vector.
pop_front(q) ==
    IF q = << >> THEN [q |-> q, val |-> None]
    ELSE [q |-> Tail(q), val |-> Some(Head(q))]

\* A pop that hands out a default task when the vector is empty.
pop_or_default(q) ==
    IF q = << >> THEN [q |-> q, val |-> Some(Task(0, 0, 0, "Low"))]
    ELSE [q |-> SubSeq(q, 1, Len(q) - 1), val |-> Some(q[Len(q)])]

\* PriorityQueue::pop: self.tasks.pop(), the last element of the vector.
pop(q) ==
    IF q = << >> THEN [q |-> q, val |-> None]
    ELSE [q |-> SubSeq(q, 1, Len(q) - 1), val |-> Some(q[Len(q)])]

\* PriorityQueue::peek: self.tasks.first()
peek(q) == IF q = << >> THEN None ELSE Some(q[1])

\* PriorityQueue::len
len(q) == Len(q)

\* PriorityQueue::is_empty
is_empty(q) == q = << >>

(***************************************************************************)
(* State shared by both specifications before any thread runs: the state   *)
(* of main() once the channel, the queue and the two initial tasks exist.  *)
(***************************************************************************)
NoLocals == [task |-> None, task_result |-> None,
             medium_priority |-> None, high_priority |-> None]

Idle ==
    /\ tasks = << >>
    /\ lock = "free"
    /\ channel = << >>
    /\ senderDropped = FALSE
    /\ spc = "unspawned"
    /\ i = 0
    /\ hpc = "unspawned"
    /\ rpc = "unspawned"
    /\ rlocal = NoLocals
    /\ units = << >>
    /\ pushedLog = << >>
    /\ poppedLog = << >>
    /\ sent = << >>
    /\ received = << >>
    /\ executed = << >>
    /\ lenAtLock = 0
    /\ calls = << >>
    /\ poisoned = FALSE
    /\ drainStart = << >>

\* The variables of the program that a TaskQueue call on its own leaves alone.
progVars == << lock, channel, senderDropped, mainpc, spc, i, hpc, rpc, rlocal,
               units, sent, received, executed, lenAtLock, poisoned, drainStart >>

(***************************************************************************)
(* QSpec: the TaskQueue API called on one PriorityQueue by a single owner. *)
(***************************************************************************)
\* Handler inputs of the tasks pushed: HardProblem::new(3, 2) and ::new(5, 7).
Handlers == { << 3, 2 >>, << 5, 7 >> }

\* A call record: the operation, the queue before it, its argument and result.
Call(op, before, arg, val) == [op |-> op, before |-> before, arg |-> arg, val |-> val]

Remember(c) == IF calls = << >> THEN << c >> ELSE << calls[Len(calls)], c >>

QInit ==
    /\ Idle
    /\ mainpc = "test"
    /\ nextId = 0

QPush ==
    /\ nextId < MaxPush
    /\ \E p \in PriorityLevel, h \in Handlers :
          LET t == Task(nextId + 1, h[1], h[2], p) IN
          /\ tasks' = push(tasks, t)
          /\ pushedLog' = Append(pushedLog, t)
          /\ calls' = Remember(Call("push", tasks, Some(t), None))
    /\ nextId' = nextId + 1
    /\ UNCHANGED << progVars, poppedLog >>

QPop ==
    LET r == pop(tasks) IN
    /\ tasks' = r.q
    /\ poppedLog' = poppedLog \o r.val
    /\ calls' = Remember(Call("pop", tasks, None, r.val))
    /\ UNCHANGED << progVars, nextId, pushedLog >>

QPeek ==
    /\ calls' = Remember(Call("peek", tasks, None, peek(tasks)))
    /\ UNCHANGED << progVars, tasks, nextId, pushedLog, poppedLog >>

QLen ==
    /\ calls' = Remember(Call("len", tasks, None, Some(len(tasks))))
    /\ UNCHANGED << progVars, tasks, nextId, pushedLog, poppedLog >>

QIsEmpty ==
    /\ calls' = Remember(Call("is_empty", tasks, None, Some(is_empty(tasks))))
    /\ UNCHANGED << progVars, tasks, nextId, pushedLog, poppedLog >>

QNext == QPush \/ QPop \/ QPeek \/ QLen \/ QIsEmpty

QSpec == QInit /\ [][QNext]_vars

\* The most recent call, when there is one.
LastCall == calls[Len(calls)]

(***************************************************************************)
(* Spec: the program.  main() first.                                       *)
(***************************************************************************)
\* task1 and task2 of main(); their identifiers are the first two generated.
task1 == Task(1, 3, 2, "High")
task2 == Task(2, 5, 7, "Low")

\* Record that `who` ran the handler of task `id` to completion.
Ran(id, who) ==
    IF id \in DOMAIN executed
    THEN [executed EXCEPT ![id] = Append(@, who)]
    ELSE executed @@ (id :> << who >>)

Init ==
    /\ Idle
    /\ mainpc = "lock"
    /\ nextId = 2

\* let mut queue = queue.lock().unwrap();
MainLock ==
    /\ mainpc = "lock"
    /\ lock = "free"
    /\ lock' = "main"
    /\ mainpc' = "push1"
    /\ UNCHANGED << tasks, channel, senderDropped, spc, i, hpc, rpc, rlocal, units,
                    nextId, pushedLog, poppedLog, sent, received, executed,
                    lenAtLock, calls,
                    poisoned, drainStart >>

\* queue.push(task1);
MainPush1 ==
    /\ mainpc = "push1"
    /\ tasks' = push(tasks, task1)
    /\ pushedLog' = Append(pushedLog, task1)
    /\ mainpc' = "push2"
    /\ UNCHANGED << lock, channel, senderDropped, spc, i, hpc, rpc, rlocal, units,
                    nextId, poppedLog, sent, received, executed, lenAtLock, calls,
                    poisoned, drainStart >>

\* queue.push(task2);
MainPush2 ==
    /\ mainpc = "push2"
    /\ tasks' = push(tasks, task2)
    /\ pushedLog' = Append(pushedLog, task2)
    /\ mainpc' = "unlock"
    /\ UNCHANGED << lock, channel, senderDropped, spc, i, hpc, rpc, rlocal, units,
                    nextId, poppedLog, sent, received, executed, lenAtLock, calls,
                    poisoned, drainStart >>

\* The guard goes out of scope at the end of the block.
MainUnlock ==
    /\ mainpc = "unlock"
    /\ lock' = "free"
    /\ mainpc' = "spawn_sender"
    /\ UNCHANGED << tasks, channel, senderDropped, spc, i, hpc, rpc, rlocal, units,
                    nextId, pushedLog, poppedLog, sent, received, executed,
                    lenAtLock, calls,
                    poisoned, drainStart >>

MainSpawnSender ==
    /\ mainpc = "spawn_sender"
    /\ spc' = "send"
    /\ mainpc' = "spawn_handler"
    /\ UNCHANGED << tasks, lock, channel, senderDropped, i, hpc, rpc, rlocal, units,
                    nextId, pushedLog, poppedLog, sent, received, executed,
                    lenAtLock, calls,
                    poisoned, drainStart >>

MainSpawnHandler ==
    /\ mainpc = "spawn_handler"
    /\ hpc' = "lock"
    /\ mainpc' = "spawn_receiver"
    /\ UNCHANGED << tasks, lock, channel, senderDropped, spc, i, rpc, rlocal, units,
                    nextId, pushedLog, poppedLog, sent, received, executed,
                    lenAtLock, calls,
                    poisoned, drainStart >>

MainSpawnReceiver ==
    /\ mainpc = "spawn_receiver"
    /\ rpc' = "recv"
    /\ mainpc' = "join_sender"
    /\ UNCHANGED << tasks, lock, channel, senderDropped, spc, i, hpc, rlocal, units,
                    nextId, pushedLog, poppedLog, sent, received, executed,
                    lenAtLock, calls,
                    poisoned, drainStart >>

\* sender_thread.join(), task_handler_thread.join(), receiver_thread.join(), in
\* this order; main() then prints and returns, which ends the process and
\* with it every thread handle() spawned that is still running.  The join of
\* a thread that panicked returns Err, and the unwrap then panics main.
MainJoin ==
    /\ \/ /\ mainpc = "join_sender"
          /\ spc \in {"done", "panicked"}
          /\ mainpc' = IF spc = "done" THEN "join_handler" ELSE "exited"
       \/ /\ mainpc = "join_handler"
          /\ hpc \in {"done", "panicked"}
          /\ mainpc' = IF hpc = "done" THEN "join_receiver" ELSE "exited"
       \/ /\ mainpc = "join_receiver"
          /\ rpc \in {"done", "panicked"}
          /\ mainpc' = "exited"
    /\ UNCHANGED << tasks, lock, channel, senderDropped, spc, i, hpc, rpc, rlocal,
                    units, nextId, pushedLog, poppedLog, sent, received, executed,
                    lenAtLock, calls,
                    poisoned, drainStart >>

(***************************************************************************)
(* The sender thread (Feeder).                                             *)
(***************************************************************************)
\* One iteration of `for i in 0..10`: build the task, send it, sleep.  The
\* send fails, and its unwrap panics, once the receiver has been dropped.
SenderSend ==
    /\ spc = "send"
    /\ i < FeederCount
    /\ LET task == Task(nextId + 1, i, i + 1,
                        IF i % 2 = 0 THEN "High" ELSE "Low") IN
          IF rpc = "panicked"
          THEN /\ spc' = "panicked"
               /\ senderDropped' = TRUE
               /\ UNCHANGED << channel, sent, i >>
          ELSE /\ channel' = Append(channel, task)
               /\ sent' = Append(sent, task)
               /\ i' = i + 1
               /\ UNCHANGED << spc, senderDropped >>
    /\ nextId' = nextId + 1
    /\ UNCHANGED << tasks, lock, mainpc, hpc, rpc, rlocal, units,
                    pushedLog, poppedLog, received, executed, lenAtLock, calls,
                    poisoned, drainStart >>

\* A sender thread that ends while another handle of the Sender stays alive,
\* so that the channel is never closed.
SenderFinish_KeepsSender ==
    /\ spc = "send"
    /\ i = FeederCount
    /\ spc' = "done"
    /\ UNCHANGED << tasks, lock, channel, senderDropped, mainpc, i, hpc, rpc, rlocal,
                    units, nextId, pushedLog, poppedLog, sent, received, executed,
                    lenAtLock, calls, poisoned, drainStart >>

\* The loop ends; the closure returns and drops `sender`, closing the channel.
SenderFinish ==
    /\ spc = "send"
    /\ i = FeederCount
    /\ spc' = "done"
    /\ senderDropped' = TRUE
    /\ UNCHANGED << tasks, lock, channel, mainpc, i, hpc, rpc, rlocal, units, nextId,
                    pushedLog, poppedLog, sent, received, executed, lenAtLock, calls,
                    poisoned, drainStart >>

(***************************************************************************)
(* The task-handler thread (Dispatcher) and the threads handle() spawns.   *)
(***************************************************************************)
\* let mut queue = queue_clone.lock().unwrap(); the unwrap panics on a
\* poisoned Mutex.
HandlerLock ==
    /\ hpc = "lock"
    /\ lock = "free"
    /\ IF poisoned
       THEN /\ hpc' = "panicked"
            /\ UNCHANGED << lock, drainStart >>
       ELSE /\ lock' = "handler"
            /\ hpc' = "handle"
            /\ drainStart' = tasks
    /\ UNCHANGED << tasks, channel, senderDropped, mainpc, spc, i, rpc, rlocal, units,
                    nextId, pushedLog, poppedLog, sent, received, executed,
                    lenAtLock, calls, poisoned >>

\* A handle() that joins each thread it spawned before it pops again.
HandleSpawn_Joining ==
    /\ hpc = "handle"
    /\ \A id \in DOMAIN units : units[id].st # "running"
    /\ LET r == pop(tasks) IN
          /\ r.val # None
          /\ tasks' = r.q
          /\ poppedLog' = poppedLog \o r.val
          /\ units' = units @@ (r.val[1].id :>
                         [handler |-> << r.val[1].num1, r.val[1].num2 >>,
                          priority_level |-> r.val[1].priority_level,
                          st |-> "running", result |-> None])
    /\ UNCHANGED << lock, channel, senderDropped, mainpc, spc, i, hpc, rpc, rlocal,
                    nextId, pushedLog, sent, received, executed, lenAtLock, calls,
                    poisoned, drainStart >>

\* handle(): `while let Some(task) = self.pop()` with a task: spawn its thread.
HandleSpawn ==
    /\ hpc = "handle"
    /\ LET r == pop(tasks) IN
          /\ r.val # None
          /\ tasks' = r.q
          /\ poppedLog' = poppedLog \o r.val
          /\ units' = units @@ (r.val[1].id :>
                         [handler |-> << r.val[1].num1, r.val[1].num2 >>,
                          priority_level |-> r.val[1].priority_level,
                          st |-> "running", result |-> None])
    /\ UNCHANGED << lock, channel, senderDropped, mainpc, spc, i, hpc, rpc, rlocal,
                    nextId, pushedLog, sent, received, executed, lenAtLock, calls,
                    poisoned, drainStart >>

\* A handle() written with `if let`: it returns after its first pop.
HandleReturn_AfterOne ==
    /\ hpc = "handle"
    /\ pop(tasks).val = None \/ poppedLog # << >>
    /\ lock' = "free"
    /\ hpc' = "done"
    /\ UNCHANGED << tasks, channel, senderDropped, mainpc, spc, i, rpc, rlocal, units,
                    nextId, pushedLog, poppedLog, sent, received, executed,
                    lenAtLock, calls, poisoned, drainStart >>

\* A task-handler thread that drains again for as long as the receiver thread
\* is alive.
HandleReturn_Redrain ==
    /\ hpc = "handle"
    /\ pop(tasks).val = None
    /\ lock' = "free"
    /\ hpc' = IF rpc = "done" THEN "done" ELSE "lock"
    /\ UNCHANGED << tasks, channel, senderDropped, mainpc, spc, i, rpc, rlocal, units,
                    nextId, pushedLog, poppedLog, sent, received, executed,
                    lenAtLock, calls, poisoned, drainStart >>

\* handle(): pop() returns None; handle returns, the guard is dropped and the
\* thread ends.
HandleReturn ==
    /\ hpc = "handle"
    /\ pop(tasks).val = None
    /\ lock' = "free"
    /\ hpc' = "done"
    /\ UNCHANGED << tasks, channel, senderDropped, mainpc, spc, i, rpc, rlocal, units,
                    nextId, pushedLog, poppedLog, sent, received, executed,
                    lenAtLock, calls,
                    poisoned, drainStart >>

\* A spawned thread that, like the receiver, pushes a task derived from its
\* result.
UnitComplete_Requeue(id) ==
    /\ mainpc # "exited"
    /\ units[id].st = "running"
    /\ units' = [units EXCEPT ![id].st = "done",
                              ![id].result = Some(units[id].handler[1] + units[id].handler[2])]
    /\ executed' = Ran(id, "unit")
    /\ LET r == units[id].handler[1] + units[id].handler[2]
           t == Task(nextId + 1, r, r + 1, "Low")
       IN  /\ tasks' = push(tasks, t)
           /\ pushedLog' = Append(pushedLog, t)
    /\ nextId' = nextId + 1
    /\ UNCHANGED << lock, channel, senderDropped, mainpc, spc, i, hpc, rpc,
                    rlocal, poppedLog, sent, received,
                    lenAtLock, calls, poisoned, drainStart >>

\* A spawned thread: let result = handler.execute(); println!(priority, result).
UnitComplete(id) ==
    /\ mainpc # "exited"
    /\ units[id].st = "running"
    /\ units' = [units EXCEPT ![id].st = "done",
                              ![id].result = Some(units[id].handler[1] + units[id].handler[2])]
    /\ executed' = Ran(id, "unit")
    /\ UNCHANGED << tasks, lock, channel, senderDropped, mainpc, spc, i, hpc, rpc,
                    rlocal, nextId, pushedLog, poppedLog, sent, received,
                    lenAtLock, calls,
                    poisoned, drainStart >>

(***************************************************************************)
(* The receiver thread (Intake).                                           *)
(***************************************************************************)
\* A receive that takes the newest message instead of the oldest.
ReceiverRecv_Newest ==
    /\ rpc = "recv"
    /\ channel # << >>
    /\ rlocal' = [rlocal EXCEPT !.task = Some(channel[Len(channel)])]
    /\ channel' = SubSeq(channel, 1, Len(channel) - 1)
    /\ received' = Append(received, channel[Len(channel)])
    /\ rpc' = "execute"
    /\ UNCHANGED << tasks, lock, senderDropped, mainpc, spc, i, hpc, units, nextId,
                    pushedLog, poppedLog, sent, executed, lenAtLock, calls,
                    poisoned, drainStart >>

\* A receive made with the queue's lock already taken, so that the handler
\* runs under it.
ReceiverRecv_Locking ==
    /\ rpc = "recv"
    /\ channel # << >>
    /\ lock = "free"
    /\ lock' = "receiver"
    /\ rlocal' = [rlocal EXCEPT !.task = Some(Head(channel))]
    /\ channel' = Tail(channel)
    /\ received' = Append(received, Head(channel))
    /\ rpc' = "execute"
    /\ UNCHANGED << tasks, senderDropped, mainpc, spc, i, hpc, units, nextId,
                    pushedLog, poppedLog, sent, executed, lenAtLock, calls,
                    poisoned, drainStart >>

\* `while let Ok(task) = receiver.recv()` with a message waiting.
ReceiverRecv ==
    /\ rpc = "recv"
    /\ channel # << >>
    /\ rlocal' = [rlocal EXCEPT !.task = Some(Head(channel))]
    /\ channel' = Tail(channel)
    /\ received' = Append(received, Head(channel))
    /\ rpc' = "execute"
    /\ UNCHANGED << tasks, lock, senderDropped, mainpc, spc, i, hpc, units, nextId,
                    pushedLog, poppedLog, sent, executed, lenAtLock, calls,
                    poisoned, drainStart >>

\* A receive loop that ends as soon as the channel is empty, as with
\* try_recv, whether or not the sender is still alive.
ReceiverExit_OnEmpty ==
    /\ rpc = "recv"
    /\ channel = << >>
    /\ rpc' = "done"
    /\ UNCHANGED << tasks, lock, channel, senderDropped, mainpc, spc, i, hpc, rlocal,
                    units, nextId, pushedLog, poppedLog, sent, received, executed,
                    lenAtLock, calls, poisoned, drainStart >>

\* recv() returns Err once the channel is empty and the sender is gone.
ReceiverExit ==
    /\ rpc = "recv"
    /\ channel = << >>
    /\ senderDropped
    /\ rpc' = "done"
    /\ UNCHANGED << tasks, lock, channel, senderDropped, mainpc, spc, i, hpc, rlocal,
                    units, nextId, pushedLog, poppedLog, sent, received, executed,
                    lenAtLock, calls,
                    poisoned, drainStart >>

\* A receiver whose second derived task is tagged High, as its name suggests.
ReceiverExecute_SecondHigh ==
    /\ rpc = "execute"
    /\ LET task_result == execute(rlocal.task[1]) IN
          rlocal' = [rlocal EXCEPT
                       !.task_result = Some(task_result),
                       !.medium_priority =
                           Some(Task(nextId + 1, task_result, task_result + 1, "Medium")),
                       !.high_priority =
                           Some(Task(nextId + 2, task_result, task_result + 1, "High"))]
    /\ executed' = Ran(rlocal.task[1].id, "intake")
    /\ nextId' = nextId + 2
    /\ rpc' = "lock"
    /\ UNCHANGED << tasks, lock, channel, senderDropped, mainpc, spc, i, hpc, units,
                    pushedLog, poppedLog, sent, received, lenAtLock, calls,
                    poisoned, drainStart >>

\* task.handler.execute(), the two println!, and the two derived tasks.
ReceiverExecute ==
    /\ rpc = "execute"
    /\ LET task_result == execute(rlocal.task[1]) IN
          rlocal' = [rlocal EXCEPT
                       !.task_result = Some(task_result),
                       !.medium_priority =
                           Some(Task(nextId + 1, task_result, task_result + 1, "Medium")),
                       !.high_priority =
                           Some(Task(nextId + 2, task_result, task_result + 1, "Low"))]
    /\ executed' = Ran(rlocal.task[1].id, "intake")
    /\ nextId' = nextId + 2
    /\ rpc' = "lock"
    /\ UNCHANGED << tasks, lock, channel, senderDropped, mainpc, spc, i, hpc, units,
                    pushedLog, poppedLog, sent, received, lenAtLock, calls,
                    poisoned, drainStart >>

\* let mut queue = queue.lock().unwrap(); the unwrap panics on a poisoned
\* Mutex.
ReceiverLock ==
    /\ rpc = "lock"
    /\ lock = "free"
    /\ IF poisoned
       THEN /\ rpc' = "panicked"
            /\ UNCHANGED << lock, lenAtLock >>
       ELSE /\ lock' = "receiver"
            /\ lenAtLock' = len(tasks)
            /\ rpc' = "push_medium"
    /\ UNCHANGED << tasks, channel, senderDropped, mainpc, spc, i, hpc, rlocal, units,
                    nextId, pushedLog, poppedLog, sent, received, executed, calls,
                    poisoned, drainStart >>

\* A receiver that locks for each push on its own: the guard is gone after
\* the first push.
ReceiverPushMedium_Releasing ==
    /\ rpc = "push_medium"
    /\ tasks' = push(tasks, rlocal.medium_priority[1])
    /\ pushedLog' = Append(pushedLog, rlocal.medium_priority[1])
    /\ rlocal' = [rlocal EXCEPT !.medium_priority = None]
    /\ lock' = "free"
    /\ rpc' = "push_low"
    /\ UNCHANGED << channel, senderDropped, mainpc, spc, i, hpc, units, nextId,
                    poppedLog, sent, received, executed, lenAtLock, calls,
                    poisoned, drainStart >>

\* queue.push(medium_priority);
ReceiverPushMedium ==
    /\ rpc = "push_medium"
    /\ tasks' = push(tasks, rlocal.medium_priority[1])
    /\ pushedLog' = Append(pushedLog, rlocal.medium_priority[1])
    /\ rlocal' = [rlocal EXCEPT !.medium_priority = None]
    /\ rpc' = "push_low"
    /\ UNCHANGED << lock, channel, senderDropped, mainpc, spc, i, hpc, units, nextId,
                    poppedLog, sent, received, executed, lenAtLock, calls,
                    poisoned, drainStart >>

\* A receiver that puts the received task itself back into the queue.
ReceiverPushLow_Requeue ==
    /\ rpc = "push_low"
    /\ tasks' = push(tasks, rlocal.task[1])
    /\ pushedLog' = Append(pushedLog, rlocal.task[1])
    /\ rlocal' = [rlocal EXCEPT !.high_priority = None]
    /\ rpc' = "unlock"
    /\ UNCHANGED << lock, channel, senderDropped, mainpc, spc, i, hpc, units, nextId,
                    poppedLog, sent, received, executed, lenAtLock, calls,
                    poisoned, drainStart >>

\* queue.push(high_priority);
ReceiverPushLow ==
    /\ rpc = "push_low"
    /\ tasks' = push(tasks, rlocal.high_priority[1])
    /\ pushedLog' = Append(pushedLog, rlocal.high_priority[1])
    /\ rlocal' = [rlocal EXCEPT !.high_priority = None]
    /\ rpc' = "unlock"
    /\ UNCHANGED << lock, channel, senderDropped, mainpc, spc, i, hpc, units, nextId,
                    poppedLog, sent, received, executed, lenAtLock, calls,
                    poisoned, drainStart >>

\* The end of the loop body drops the guard and the received task.
ReceiverUnlock ==
    /\ rpc = "unlock"
    /\ lock' = "free"
    /\ rlocal' = NoLocals
    /\ rpc' = "recv"
    /\ UNCHANGED << tasks, channel, senderDropped, mainpc, spc, i, hpc, units, nextId,
                    pushedLog, poppedLog, sent, received, executed, lenAtLock, calls,
                    poisoned, drainStart >>

Next ==
    \/ MainLock \/ MainPush1 \/ MainPush2 \/ MainUnlock
    \/ MainSpawnSender \/ MainSpawnHandler \/ MainSpawnReceiver \/ MainJoin
    \/ SenderSend \/ SenderFinish
    \/ HandlerLock \/ HandleSpawn \/ HandleReturn
    \/ \E id \in DOMAIN units : UnitComplete(id)
    \/ ReceiverRecv \/ ReceiverExit \/ ReceiverExecute
    \/ ReceiverLock \/ ReceiverPushMedium \/ ReceiverPushLow \/ ReceiverUnlock

Spec == Init /\ [][Next]_vars

(***************************************************************************)
(* FSpec: the program with handlers that may fail.  execute() of a         *)
(* TaskHandler may panic; in a thread handle() spawned the panic unwinds   *)
(* that thread, whose closure owns the handler and the priority only.      *)
(***************************************************************************)
Failed == { id \in DOMAIN units : units[id].st = "panicked" }

\* A handler failure in a thread that holds the queue's guard, as it would be
\* if handle() ran the handler itself: the unwinding poisons the Mutex, ends
\* the task-handler thread and releases the lock.
UnitFail_UnderLock(id) ==
    /\ mainpc # "exited"
    /\ units[id].st = "running"
    /\ Cardinality(Failed) < MaxFail
    /\ units' = [units EXCEPT ![id].st = "panicked"]
    /\ poisoned' = (poisoned \/ hpc = "handle")
    /\ hpc' = IF hpc = "handle" THEN "panicked" ELSE hpc
    /\ lock' = IF hpc = "handle" THEN "free" ELSE lock
    /\ UNCHANGED << tasks, channel, senderDropped, mainpc, spc, i, rpc, rlocal,
                    nextId, pushedLog, poppedLog, sent, received, executed,
                    lenAtLock, calls, drainStart >>

\* A spawned thread whose handler.execute() panics: the thread ends without
\* a result.
UnitFail(id) ==
    /\ mainpc # "exited"
    /\ units[id].st = "running"
    /\ Cardinality(Failed) < MaxFail
    /\ units' = [units EXCEPT ![id].st = "panicked"]
    /\ UNCHANGED << tasks, lock, channel, senderDropped, mainpc, spc, i, hpc, rpc,
                    rlocal, nextId, pushedLog, poppedLog, sent, received, executed,
                    lenAtLock, calls, poisoned, drainStart >>

FNext == Next \/ \E id \in DOMAIN units : UnitFail(id)

FSpec == Init /\ [][FNext]_vars

\* The program under a scheduler that never leaves every runnable thread
\* waiting forever.
LiveSpec == Spec /\ WF_vars(Next)

(***************************************************************************)
(* Vocabulary of the properties.                                           *)
(***************************************************************************)
\* The scheduling order of the priorities: High > Medium > Low.
SchedRank(p) == CASE p = "High" -> 3 [] p = "Medium" -> 2 [] p = "Low" -> 1

AtLeast(p, q) == SchedRank(p) >= SchedRank(q)

\* Number of positions of the sequence s that hold x.
Occ(s, x) == Cardinality({ k \in 1..Len(s) : s[k] = x })

\* Number of positions of the sequence s that hold a task with identifier id.
OccId(s, id) == Cardinality({ k \in 1..Len(s) : s[k].id = id })

HighestIn(t, q) == \A k \in 1..Len(q) : AtLeast(t.priority_level, q[k].priority_level)

IsKind(t, p, num1, num2) ==
    t.priority_level = p /\ t.num1 = num1 /\ t.num2 = num2

(***************************************************************************)
(* C1 (QSpec).  Whatever pushes and pops were made, a pop that returns a   *)
(* task returns one whose priority is at least that of every task still in *)
(* the queue; and when exactly High(3+2) then Low(5+7) were pushed, the    *)
(* first pop returns the High task (result 5), the second the Low task     *)
(* (result 12).                                                            *)
(***************************************************************************)
C1_PopReturnsHighest ==
    /\ (calls # << >> /\ LastCall.op = "pop" /\ LastCall.val # None)
          => HighestIn(LastCall.val[1], tasks)
    /\ ( /\ Len(pushedLog) = 2
         /\ IsKind(pushedLog[1], "High", 3, 2)
         /\ IsKind(pushedLog[2], "Low", 5, 7) )
          => /\ Len(poppedLog) >= 1 =>
                   /\ poppedLog[1] = pushedLog[1]
                   /\ execute(poppedLog[1]) = 5
             /\ Len(poppedLog) >= 2 =>
                   /\ poppedLog[2] = pushedLog[2]
                   /\ execute(poppedLog[2]) = 12

\* A pop, right after a push, returned a task while tasks of strictly lower
\* priority stayed behind.
C1_Witness ==
    /\ Len(calls) = 2
    /\ calls[1].op = "push"
    /\ calls[2].op = "pop"
    /\ calls[2].val # None
    /\ Len(tasks) >= 2
    /\ \E k \in 1..Len(tasks) :
          SchedRank(tasks[k].priority_level) < SchedRank(calls[2].val[1].priority_level)

(***************************************************************************)
(* C2 (QSpec).  On a non-empty queue peek returns a task of the highest    *)
(* priority present, and a pop made right after a peek returns the task    *)
(* the peek showed (same identifier, same priority).                       *)
(***************************************************************************)
C2_PeekThenPop ==
    /\ (calls # << >> /\ LastCall.op = "peek" /\ LastCall.before # << >>)
          => /\ LastCall.val # None
             /\ HighestIn(LastCall.val[1], LastCall.before)
    /\ ( /\ Len(calls) = 2
         /\ calls[1].op = "peek"
         /\ calls[1].val # None
         /\ calls[2].op = "pop" )
          => /\ calls[2].val # None
             /\ calls[2].val[1].id = calls[1].val[1].id
             /\ calls[2].val[1].priority_level = calls[1].val[1].priority_level

(***************************************************************************)
(* C3 (Spec).  With main, the receiver thread and the task-handler thread  *)
(* pushing and popping under the lock, every task ever pushed is either in *)
(* the queue exactly once or was returned by exactly one pop, whole, and   *)
(* nothing else is in the queue or was popped.                             *)
(***************************************************************************)
C3_NoLossNoDuplicate ==
    /\ \A k \in 1..Len(pushedLog) :
          /\ Occ(tasks, pushedLog[k]) + Occ(poppedLog, pushedLog[k]) = 1
          /\ OccId(pushedLog, pushedLog[k].id) = 1
    /\ Len(tasks) + Len(poppedLog) = Len(pushedLog)

\* The drain is under way, it has already popped a task the receiver derived,
\* and the receiver is waiting to push the next pair.
C3_Witness ==
    /\ hpc = "handle"
    /\ rpc = "lock"
    /\ tasks # << >>
    /\ \E k \in 1..Len(poppedLog) : poppedLog[k].priority_level = "Medium"

(***************************************************************************)
(* C4 (Spec).  When the receiver thread has pushed for a received task     *)
(* whose execution gave R, it pushed exactly two tasks, a Medium one and a *)
(* Low one, both with handler inputs (R, R+1), and the queue is longer by  *)
(* exactly 2 than when it took the lock; between two iterations the number *)
(* of tasks it pushed is twice the number of tasks it received.            *)
(***************************************************************************)
C4_IntakePushesPair ==
    /\ rpc = "unlock" =>
          LET R == execute(received[Len(received)])
              n == Len(pushedLog)
          IN  /\ n = 2 + 2 * Len(received)
              /\ IsKind(pushedLog[n - 1], "Medium", R, R + 1)
              /\ IsKind(pushedLog[n], "Low", R, R + 1)
              /\ pushedLog[n - 1].id # pushedLog[n].id
              /\ Occ(tasks, pushedLog[n - 1]) = 1
              /\ Occ(tasks, pushedLog[n]) = 1
              /\ len(tasks) = lenAtLock + 2
    /\ rpc \in {"recv", "done"} => Len(pushedLog) = 2 + 2 * Len(received)

\* The pair of the second received task has just been pushed into a queue the
\* drain had not reached yet.
C4_Witness ==
    /\ rpc = "unlock"
    /\ Len(received) = 2
    /\ lenAtLock = 4
    /\ len(tasks) = 6

(***************************************************************************)
(* C5 (Spec).  The receiver thread gets the tasks in the order the sender  *)
(* thread sent them, each once, whatever their priorities; when its loop   *)
(* has ended it has received exactly the FeederCount tasks sent.           *)
(***************************************************************************)
C5_ChannelFifo ==
    /\ Len(received) <= Len(sent)
    /\ received = SubSeq(sent, 1, Len(received))
    /\ sent = received \o channel
    /\ \A k \in 1..Len(sent) :
          /\ IsKind(sent[k], IF (k - 1) % 2 = 0 THEN "High" ELSE "Low", k - 1, k)
          /\ OccId(sent, sent[k].id) = 1
    /\ rpc = "done" => Len(received) = FeederCount

\* All tasks were received, the High one and then the Low one, and the second
\* had been sent before the receiver thread derived anything from the first.
C5_Witness ==
    /\ rpc = "done"
    /\ Len(received) = FeederCount
    /\ received[1].priority_level = "High"
    /\ received[2].priority_level = "Low"
    /\ received[2].id = received[1].id + 1

(***************************************************************************)
(* C6 (Spec).  No thread holds the queue's lock while it executes a task's *)
(* handler: the receiver thread holds it only from its lock() to the end   *)
(* of the loop body, never while it receives or executes; the task-handler *)
(* thread holds it exactly during handle(), which only pops and spawns;    *)
(* main holds it only around its two pushes; the handlers of popped tasks  *)
(* run in the spawned threads, which are never an owner of the lock.       *)
(***************************************************************************)
C6_NoHandlerUnderLock ==
    /\ lock \in {"free", "main", "handler", "receiver"}
    /\ ~(lock = "receiver" /\ rpc = "execute")
    /\ lock = "receiver" <=> rpc \in {"push_medium", "push_low", "unlock"}
    /\ lock = "handler" <=> hpc = "handle"
    /\ lock = "main" <=> mainpc \in {"push1", "push2", "unlock"}
    /\ \A id \in DOMAIN executed :
          \A k \in 1..Len(executed[id]) : executed[id][k] \in {"intake", "unit"}

\* The task-handler thread holds the lock in the middle of its drain while a
\* spawned thread and the receiver thread are each executing a handler.
C6_Witness ==
    /\ lock = "handler"
    /\ tasks # << >>
    /\ rpc = "execute"
    /\ \E id \in DOMAIN units : units[id].st = "running"

\* The tasks the sender thread created and the tasks the receiver thread
\* derived (everything pushed after main's two initial tasks).
FeederTasks == { sent[k] : k \in 1..Len(sent) }
DerivedTasks == { pushedLog[k] : k \in 3..Len(pushedLog) }
QueuedTasks == { pushedLog[k] : k \in 1..Len(pushedLog) }

\* Task t's handler was run exactly once, by `who`.
RanOnceBy(t, who) == t.id \in DOMAIN executed /\ executed[t.id] = << who >>

(***************************************************************************)
(* C7 as stated (Spec).  When the program has ended, every task the        *)
(* sender thread created or the receiver thread derived had its handler    *)
(* executed exactly once, by a thread that handle() spawned.               *)
(***************************************************************************)
C7_EveryTaskRunByDispatcher ==
    mainpc = "exited" =>
        \A t \in FeederTasks \cup DerivedTasks : RanOnceBy(t, "unit")

(***************************************************************************)
(* C7 amended (Spec).  No task's handler is executed more than once.  A    *)
(* task the sender thread created never enters the queue and is executed   *)
(* by the receiver thread only, exactly once by the time the receive loop  *)
(* has ended.  A task pushed into the queue (initial or derived) is        *)
(* executed only by a thread handle() spawned for it, after handle()       *)
(* popped it; one that the single drain did not pop is never executed.     *)
(***************************************************************************)
C7_ExecutedAtMostOnce ==
    /\ \A id \in DOMAIN executed : Len(executed[id]) = 1
    /\ \A t \in FeederTasks :
          /\ t \notin QueuedTasks
          /\ t.id \notin DOMAIN units
          /\ t.id \in DOMAIN executed => executed[t.id] = << "intake" >>
          /\ rpc = "done" => RanOnceBy(t, "intake")
    /\ \A t \in QueuedTasks :
          /\ t.id \in DOMAIN executed =>
                /\ executed[t.id] = << "unit" >>
                /\ Occ(poppedLog, t) = 1
                /\ t.id \in DOMAIN units
                /\ units[t.id].st = "done"
          /\ Occ(poppedLog, t) = 1 <=> t.id \in DOMAIN units
    /\ \A id \in DOMAIN units :
          units[id].st = "done" <=> id \in DOMAIN executed

\* The program has ended: every sent task was run by the receiver thread, a
\* derived task was run by a spawned thread, and another derived task is
\* still in the queue, never run.
C7_Witness ==
    /\ mainpc = "exited"
    /\ Len(sent) = FeederCount
    /\ \A t \in FeederTasks : RanOnceBy(t, "intake")
    /\ \E t \in DerivedTasks : RanOnceBy(t, "unit")
    /\ \E t \in DerivedTasks : Occ(tasks, t) = 1 /\ t.id \notin DOMAIN executed

(***************************************************************************)
(* C8 (QSpec).  Whenever pop signals that the queue is empty, the tasks    *)
(* the pops returned are exactly the tasks pushed so far, each once: as    *)
(* many pops succeeded as pushes were made, every pushed task was returned *)
(* once, and the identifiers pushed are distinct.                          *)
(***************************************************************************)
C8_DrainReturnsAll ==
    (calls # << >> /\ LastCall.op = "pop" /\ LastCall.val = None) =>
        /\ Len(poppedLog) = Len(pushedLog)
        /\ \A k \in 1..Len(pushedLog) :
              /\ Occ(poppedLog, pushedLog[k]) = 1
              /\ OccId(poppedLog, pushedLog[k].id) = 1
              /\ OccId(pushedLog, pushedLog[k].id) = 1
        /\ \A k \in 1..Len(poppedLog) : Occ(pushedLog, poppedLog[k]) = 1

\* Three tasks, two of them of the same priority, were pushed and the pops
\* that followed returned the three of them before signalling empty.
C8_Witness ==
    /\ Len(calls) = 2
    /\ calls[1].op = "pop"
    /\ calls[1].val # None
    /\ calls[2].op = "pop"
    /\ calls[2].val = None
    /\ Len(pushedLog) = 3
    /\ Len(poppedLog) = 3
    /\ \A k \in 1..3 : poppedLog[k].id # pushedLog[k].id
    /\ pushedLog[1].priority_level = pushedLog[3].priority_level

(***************************************************************************)
(* C9 (QSpec).  is_empty() is true exactly when len() is 0, as observers   *)
(* of the current queue and as results of the calls; a push leaves len()   *)
(* one more than before it, a pop that returns a task one less.            *)
(***************************************************************************)
C9_LenAndIsEmpty ==
    /\ is_empty(tasks) <=> len(tasks) = 0
    /\ calls # << >> =>
          /\ LastCall.op = "is_empty" =>
                (LastCall.val[1] <=> Len(LastCall.before) = 0)
          /\ LastCall.op = "len" => LastCall.val[1] = Len(LastCall.before)
          /\ LastCall.op = "push" => len(tasks) = len(LastCall.before) + 1
          /\ (LastCall.op = "pop" /\ LastCall.val # None) =>
                len(tasks) = len(LastCall.before) - 1

\* A pop right after a push of a second task of the same priority.
C9_Witness ==
    /\ Len(calls) = 2
    /\ calls[1].op = "push"
    /\ Len(calls[1].before) = 1
    /\ calls[1].before[1].priority_level = calls[1].arg[1].priority_level
    /\ calls[2].op = "pop"
    /\ calls[2].val # None
    /\ len(tasks) = 1

(***************************************************************************)
(* C10 (QSpec).  pop and peek on an empty queue return None and leave the  *)
(* queue empty, with len() 0; a push made right after such a call puts its *)
(* task into the queue.                                                    *)
(***************************************************************************)
C10_EmptyIsNotAnError ==
    /\ (calls # << >> /\ LastCall.op \in {"pop", "peek"} /\ LastCall.before = << >>)
          => /\ LastCall.val = None
             /\ tasks = << >>
             /\ len(tasks) = 0
             /\ is_empty(tasks)
    /\ ( /\ Len(calls) = 2
         /\ calls[1].op \in {"pop", "peek"}
         /\ calls[1].before = << >>
         /\ calls[2].op = "push" )
          => /\ tasks = calls[2].arg
             /\ len(tasks) = 1

\* A push right after a pop on the queue that earlier pops had emptied.
C10_Witness ==
    /\ Len(calls) = 2
    /\ calls[1].op = "pop"
    /\ calls[1].before = << >>
    /\ calls[1].val = None
    /\ calls[2].op = "push"
    /\ Len(poppedLog) >= 1
    /\ len(tasks) = 1

Reverse(s) == [ k \in 1..Len(s) |-> s[Len(s) + 1 - k] ]

IdsOf(s) == { s[k].id : k \in 1..Len(s) }

(***************************************************************************)
(* C11 (Spec).  handle() drains the queue.  While it runs no push happens, *)
(* so the queue it found is what is left followed by what it popped,       *)
(* newest pop first; when it returns the queue is empty and it has spawned *)
(* exactly one thread for each task it found; the threads were spawned in  *)
(* non-increasing priority order.                                          *)
(***************************************************************************)
C11_HandleDrains ==
    /\ [](/\ hpc = "handle" =>
                /\ drainStart = tasks \o Reverse(poppedLog)
                /\ lock = "handler"
          /\ hpc = "done" =>
                /\ poppedLog = Reverse(drainStart)
                /\ DOMAIN units = IdsOf(drainStart)
                /\ Cardinality(DOMAIN units) = Len(drainStart)
          /\ hpc \in {"handle", "done"} =>
                /\ DOMAIN units = IdsOf(poppedLog)
                /\ \A a, b \in 1..Len(poppedLog) :
                      a < b => AtLeast(poppedLog[a].priority_level,
                                       poppedLog[b].priority_level))
    /\ [][(hpc = "handle" /\ hpc' = "done") => (tasks' = << >> /\ lock' = "free")]_vars

\* handle() has returned after finding the two initial tasks and two derived
\* pairs in the queue: tasks of all three priorities.
C11_Witness ==
    /\ hpc = "done"
    /\ Len(drainStart) = 6
    /\ Cardinality(DOMAIN units) = 6
    /\ { drainStart[k].priority_level : k \in 1..6 } = PriorityLevel

(***************************************************************************)
(* C12 (Spec).  The completion of a thread handle() spawned is terminal:   *)
(* the step records the result of its handler next to its priority and     *)
(* changes neither the queue nor the channel (nothing is pushed, nothing   *)
(* is sent); the queue grows only in the pushes of main's two initial      *)
(* tasks and in the receiver thread's pushes.                              *)
(***************************************************************************)
C12_UnitCompletionIsTerminal ==
    /\ [][\A id \in DOMAIN units :
            (units[id].st = "running" /\ units'[id].st = "done") =>
                /\ units'[id].result = Some(units[id].handler[1] + units[id].handler[2])
                /\ units'[id].priority_level = units[id].priority_level
                /\ tasks' = tasks
                /\ pushedLog' = pushedLog
                /\ channel' = channel
                /\ sent' = sent
                /\ lock' = lock]_vars
    /\ [][(Len(tasks') > Len(tasks) \/ pushedLog' # pushedLog) =>
            \/ mainpc \in {"push1", "push2"}
            \/ rpc \in {"push_medium", "push_low"} /\ rpc' \in {"push_low", "unlock"}]_vars

\* The thread of the initial High task (3 + 2) has completed while the queue
\* and the channel both held tasks.
C12_Witness ==
    /\ 1 \in DOMAIN units
    /\ units[1].st = "done"
    /\ units[1].result = Some(5)
    /\ units[1].priority_level = "High"
    /\ tasks # << >>
    /\ channel # << >>

(***************************************************************************)
(* C13 (LiveSpec).  Under fair scheduling the program terminates: main     *)
(* returns, and then the sender thread has sent its FeederCount tasks and  *)
(* dropped the sender, the receiver thread's loop has ended on the closed  *)
(* and drained channel, the task-handler thread's drain has returned, and  *)
(* the lock is free.                                                       *)
(***************************************************************************)
C13_Terminates ==
    /\ <>(mainpc = "exited")
    /\ [](mainpc = "exited" =>
            /\ spc = "done" /\ i = FeederCount /\ senderDropped
            /\ rpc = "done" /\ channel = << >> /\ Len(received) = FeederCount
            /\ hpc = "done"
            /\ lock = "free")

\* main has returned after all three threads ended.
C13_Witness ==
    /\ mainpc = "exited"
    /\ spc = "done"
    /\ hpc = "done"
    /\ rpc = "done"
    /\ Len(received) = FeederCount

(***************************************************************************)
(* C14 (Spec).  There is one drain pass: only tasks that were in the queue *)
(* when the task-handler thread took the lock are ever popped.  A task     *)
(* pushed after that stays in the queue, gets no thread and is never       *)
(* executed, so that when main has returned the queue holds exactly the    *)
(* tasks pushed after the drain began.  (C14_Witness is the terminal state *)
(* with a non-empty queue that the race produces.)                         *)
(***************************************************************************)
C14_SingleDrainLeavesTasks ==
    /\ \A k \in 1..Len(poppedLog) : Occ(drainStart, poppedLog[k]) = 1
    /\ hpc \in {"handle", "done"} =>
          \A k \in 1..Len(pushedLog) :
              Occ(drainStart, pushedLog[k]) = 0 =>
                  /\ Occ(tasks, pushedLog[k]) = 1
                  /\ pushedLog[k].id \notin DOMAIN units
                  /\ pushedLog[k].id \notin DOMAIN executed
    /\ mainpc = "exited" =>
          /\ len(tasks) = Len(pushedLog) - Len(drainStart)
          /\ \A k \in 1..Len(tasks) : Occ(drainStart, tasks[k]) = 0

\* main has returned, all three threads have ended, the drain popped the two
\* initial tasks and one derived pair, and the derived tasks pushed after it
\* are still in the queue.
C14_Witness ==
    /\ mainpc = "exited"
    /\ spc = "done" /\ hpc = "done" /\ rpc = "done"
    /\ Len(poppedLog) = 4
    /\ len(tasks) = 2 * FeederCount - 2
    /\ \A k \in 1..Len(tasks) :
          /\ tasks[k].priority_level \in {"Medium", "Low"}
          /\ tasks[k].id \notin DOMAIN units

(***************************************************************************)
(* C15 (FSpec).  A handler failure in a thread handle() spawned ends only  *)
(* that thread.  The step changes neither the queue, nor the lock, nor the *)
(* position of main, of the sender, receiver and task-handler threads, nor *)
(* any other spawned thread; the failed task had been popped before.  The  *)
(* Mutex is never poisoned, no other thread panics, every pushed task is   *)
(* still in the queue once or popped once, and as long as main has not     *)
(* returned some thread can take a step.                                   *)
(***************************************************************************)
C15_UnitFailureIsIsolated ==
    /\ [](/\ ~poisoned
          /\ hpc # "panicked" /\ rpc # "panicked" /\ spc # "panicked"
          /\ \A id \in Failed :
                /\ OccId(tasks, id) = 0
                /\ OccId(poppedLog, id) = 1
                /\ id \notin DOMAIN executed
          /\ \A k \in 1..Len(pushedLog) :
                Occ(tasks, pushedLog[k]) + Occ(poppedLog, pushedLog[k]) = 1
          /\ mainpc # "exited" => ENABLED FNext)
    /\ [][\A id \in DOMAIN units :
            (units[id].st = "running" /\ units'[id].st = "panicked") =>
                /\ tasks' = tasks
                /\ lock' = lock
                /\ poisoned' = poisoned
                /\ << mainpc', spc', hpc', rpc' >> = << mainpc, spc, hpc, rpc >>
                /\ channel' = channel
                /\ \A other \in DOMAIN units \ {id} : units'[other] = units[other]]_vars

\* A handler failed during the drain, and afterwards the task-handler thread
\* finished the drain, the receiver thread pushed a pair and another spawned
\* thread completed.
C15_Witness ==
    /\ Failed # {}
    /\ \E id \in Failed : \E k \in 1..Len(drainStart) :
          /\ drainStart[k].id = id
          /\ \E j \in 1..Len(pushedLog) : Occ(drainStart, pushedLog[j]) = 0
    /\ hpc = "done"
    /\ mainpc = "exited"
    /\ \E id \in DOMAIN units : units[id].st = "done"
    /\ tasks # << >>

\* The spawned threads whose handler is running.
Running == { id \in DOMAIN units : units[id].st = "running" }

(***************************************************************************)
(* C16 (Spec).  handle() does not wait for the threads it spawned: as long *)
(* as the queue it drains holds a task, its next pop-and-spawn step can be *)
(* taken whatever the spawned threads are doing, and a spawned thread can  *)
(* complete whatever the threads spawned before it are doing.              *)
(* (C16_Witness is a state with two threads running at once and a thread   *)
(* spawned after them already completed.)                                  *)
(***************************************************************************)
C16_DispatchDoesNotWait ==
    /\ (hpc = "handle" /\ tasks # << >>) => ENABLED HandleSpawn
    /\ mainpc # "exited" => \A id \in Running : ENABLED UnitComplete(id)

\* The drain is still under way; the threads of the first two popped tasks
\* are both running and the thread of the third, of lower priority, is done.
C16_Witness ==
    /\ hpc = "handle"
    /\ tasks # << >>
    /\ Len(poppedLog) = 3
    /\ units[poppedLog[1].id].st = "running"
    /\ units[poppedLog[2].id].st = "running"
    /\ units[poppedLog[3].id].st = "done"
    /\ SchedRank(poppedLog[3].priority_level) < SchedRank(poppedLog[1].priority_level)

\* The two tasks derived from the j-th received task, in push order.
PairOf(j) == << pushedLog[2 * j + 1], pushedLog[2 * j + 2] >>

(***************************************************************************)
(* C17 (Spec).  The receiver thread pushes the two tasks derived from one  *)
(* received task under one acquisition of the lock: it holds the lock from *)
(* before the first push until after the second, so whenever it does not   *)
(* hold the lock every pair is pushed whole, and the queue the             *)
(* task-handler thread finds when it takes the lock holds both tasks of a  *)
(* pair or neither.                                                        *)
(***************************************************************************)
C17_PairPushedAtomically ==
    /\ rpc \in {"push_medium", "push_low", "unlock"} => lock = "receiver"
    /\ (lock # "receiver" /\ mainpc \notin {"lock", "push1", "push2"}) =>
          /\ Len(pushedLog) % 2 = 0
          /\ \A j \in 1..((Len(pushedLog) - 2) \div 2) :
                /\ PairOf(j)[1].priority_level = "Medium"
                /\ PairOf(j)[2].priority_level = "Low"
                /\ PairOf(j)[1].num1 = PairOf(j)[2].num1
                /\ Occ(tasks, PairOf(j)[1]) + Occ(poppedLog, PairOf(j)[1]) = 1
                /\ Occ(tasks, PairOf(j)[2]) + Occ(poppedLog, PairOf(j)[2]) = 1
    /\ hpc \in {"handle", "done"} =>
          \A j \in 1..((Len(pushedLog) - 2) \div 2) :
              Occ(drainStart, PairOf(j)[1]) = Occ(drainStart, PairOf(j)[2])

\* The task-handler thread took the lock between two iterations of the
\* receiver thread: it found the first pair whole and the second not at all.
C17_Witness ==
    /\ hpc = "handle"
    /\ Len(pushedLog) = 4
    /\ Occ(drainStart, PairOf(1)[1]) = 1
    /\ Occ(drainStart, PairOf(1)[2]) = 1
    /\ rpc = "lock"
    /\ Len(received) = 2

\* The position of task t in the order of the pushes.
PushIndex(t) == CHOOSE k \in 1..Len(pushedLog) : pushedLog[k] = t

(***************************************************************************)
(* C18 (QSpec).  Among tasks of equal priority the queue is last in, first *)
(* out: a pop that returns a task returns, of the tasks of the highest     *)
(* priority that were in the queue, the one pushed most recently; in the   *)
(* vector, tasks of equal priority stand in the order of their pushes.     *)
(***************************************************************************)
C18_LifoAmongEquals ==
    /\ (calls # << >> /\ LastCall.op = "pop" /\ LastCall.val # None) =>
          LET t == LastCall.val[1]
              q == LastCall.before
          IN  /\ HighestIn(t, q)
              /\ \A k \in 1..Len(q) :
                    q[k].priority_level = t.priority_level
                        => PushIndex(q[k]) <= PushIndex(t)
    /\ \A a, b \in 1..Len(tasks) :
          (a < b /\ tasks[a].priority_level = tasks[b].priority_level)
              => PushIndex(tasks[a]) < PushIndex(tasks[b])

\* A pop on a queue that held two tasks of the highest priority present and
\* one of a lower priority pushed between them returned the newer of the two.
C18_Witness ==
    /\ calls # << >>
    /\ LastCall.op = "pop"
    /\ Len(LastCall.before) = 3
    /\ LastCall.val # None
    /\ LastCall.val[1].id = 3
    /\ \E k \in 1..3 :
          /\ LastCall.before[k].id = 1
          /\ LastCall.before[k].priority_level = LastCall.val[1].priority_level
    /\ \E k \in 1..3 :
          /\ LastCall.before[k].id = 2
          /\ LastCall.before[k].priority_level # LastCall.val[1].priority_level
    /\ len(tasks) = 2

(***************************************************************************)
(* C19 (Spec).  With the two initial tasks and a sender thread bounded to  *)
(* FeederCount tasks the feedback loop is bounded: the queue never holds   *)
(* more than 2 + 2 * FeederCount tasks, and when main has returned the     *)
(* tasks in the queue and the tasks handle() dispatched (one spawned       *)
(* thread each) are 2 + 2 * FeederCount together.                          *)
(***************************************************************************)
C19_FeedbackBounded ==
    /\ len(tasks) <= 2 + 2 * FeederCount
    /\ len(tasks) + Cardinality(DOMAIN units) <= 2 + 2 * FeederCount
    /\ mainpc = "exited" =>
          /\ len(tasks) + Cardinality(DOMAIN units) = 2 + 2 * FeederCount
          /\ Cardinality(DOMAIN units) = Len(poppedLog)

\* main has returned with part of the 2 + 2 * FeederCount tasks dispatched
\* and the rest still in the queue.
C19_Witness ==
    /\ mainpc = "exited"
    /\ Cardinality(DOMAIN units) = 4
    /\ len(tasks) = 2 * FeederCount - 2
    /\ len(tasks) > 0

\* The queue holds 2 + 2 * FeederCount tasks: the receiver thread pushed every
\* pair before the task-handler thread took the lock.
C19_BoundAttained == len(tasks) = 2 + 2 * FeederCount

====
